---------------------------- MODULE Spec2Model ----------------------------
(***************************************************************************)
(* A model of src/src/util.ts of x-cloud: the ignore-list expansion and    *)
(* the analyse() pipeline (normalise, segment, term matcher and token      *)
(* classifier, language classifier, canonicaliser, filter).                *)
(*                                                                         *)
(* A JavaScript string is modelled as a sequence of UTF-16 code units.     *)
(* An ASCII code unit is the one-character TLA+ string ("a", " ", "#"); a  *)
(* non-ASCII code unit is written by its code point, "U+725B".  The empty  *)
(* string is << >>.                                                        *)
(***************************************************************************)
EXTENDS Integers, Sequences, FiniteSets, TLC

(***************************************************************************)
(* Character classes                                                       *)
(***************************************************************************)
LowerLetters ==
    {"a","b","c","d","e","f","g","h","i","j","k","l","m",
     "n","o","p","q","r","s","t","u","v","w","x","y","z"}

UpperLetters ==
    {"A","B","C","D","E","F","G","H","I","J","K","L","M",
     "N","O","P","Q","R","S","T","U","V","W","X","Y","Z"}

Digits == {"0","1","2","3","4","5","6","7","8","9"}

\* String.prototype.toLowerCase on one code unit (ASCII letters; every other
\* code unit of the modelled alphabet is its own lower case).
LowerOf ==
    [c \in UpperLetters |->
        CASE c = "A" -> "a" [] c = "B" -> "b" [] c = "C" -> "c" [] c = "D" -> "d"
          [] c = "E" -> "e" [] c = "F" -> "f" [] c = "G" -> "g" [] c = "H" -> "h"
          [] c = "I" -> "i" [] c = "J" -> "j" [] c = "K" -> "k" [] c = "L" -> "l"
          [] c = "M" -> "m" [] c = "N" -> "n" [] c = "O" -> "o" [] c = "P" -> "p"
          [] c = "Q" -> "q" [] c = "R" -> "r" [] c = "S" -> "s" [] c = "T" -> "t"
          [] c = "U" -> "u" [] c = "V" -> "v" [] c = "W" -> "w" [] c = "X" -> "x"
          [] c = "Y" -> "y" [] c = "Z" -> "z"]

\* Code points matched by HAN_REGEX's first class, [\p{Unified_Ideograph}〆〇]
\* (the ones the model uses: niu2, shi4, mai3 traditional, mai3 simplified).
HanChars == {"U+725B", "U+5E02", "U+8CB7", "U+4E70"}

\* Code points matched by HIRAGANA_REGEX: the kana and CJK-symbol ranges and
\* also [一-龯], which holds every HanChars member.
KanaRangeChars == HanChars \cup {"U+306E", "U+3001"}

\* Non-ASCII code units of the modelled alphabet (the euro sign is the only
\* one that is neither Han nor in a kana range).
NonAsciiChars == HanChars \cup KanaRangeChars \cup {"U+20AC"}

\* x.match(HAN_REGEX): the string holds an ideograph.
MatchesHan(w) == \E k \in 1..Len(w) : w[k] \in HanChars

\* x.match(HIRAGANA_REGEX)
MatchesHiragana(w) == \E k \in 1..Len(w) : w[k] \in KanaRangeChars

\* x.match(ALL_ASCII): /^[\x00-\x7F]+$/, one or more ASCII code units.
MatchesAllAscii(w) == Len(w) > 0 /\ \A k \in 1..Len(w) : w[k] \notin NonAsciiChars

\* \w of a JavaScript regular expression without the u flag: [A-Za-z0-9_]
IsWordChar(c) == c \in LowerLetters \cup UpperLetters \cup Digits \cup {"_"}

(***************************************************************************)
(* String helpers                                                          *)
(***************************************************************************)
\* Array.prototype.join("") / string concatenation over a list of strings
RECURSIVE Flatten(_)
Flatten(ss) == IF ss = << >> THEN << >> ELSE Head(ss) \o Flatten(Tail(ss))

\* Array.prototype.join(sep)
RECURSIVE JoinWith(_, _)
JoinWith(ss, sep) ==
    IF ss = << >> THEN << >>
    ELSE IF Len(ss) = 1 THEN ss[1]
    ELSE ss[1] \o sep \o JoinWith(Tail(ss), sep)

\* s.slice(p) for a 0-based p <= s.length
Drop(s, p) == SubSeq(s, p + 1, Len(s))

\* whether key k occurs in s at the 0-based offset p
OccursAt(s, p, k) ==
    /\ p + Len(k) <= Len(s)
    /\ \A n \in 1..Len(k) : s[p + n] = k[n]

\* \b at the 0-based offset p of s
WordBoundaryAt(s, p) ==
    LET before == p >= 1 /\ IsWordChar(s[p])
        after  == p < Len(s) /\ IsWordChar(s[p + 1])
    IN  before # after

\* String(undefined), what a replace callback's undefined result is written as
UndefinedText == <<"u","n","d","e","f","i","n","e","d">>

\* the index (1-based, 0 for none) of the first alternative of the regular
\* expression key1|key2|... that matches s at offset p; with bounded, the
\* alternation is wrapped as \b(...)\b and an alternative whose end is no word
\* boundary is backtracked over.
RECURSIVE FirstAlternative(_, _, _, _, _)
FirstAlternative(s, p, keys, bounded, n) ==
    IF n > Len(keys) THEN 0
    ELSE IF /\ OccursAt(s, p, keys[n])
            /\ bounded => (WordBoundaryAt(s, p) /\ WordBoundaryAt(s, p + Len(keys[n])))
         THEN n
         ELSE FirstAlternative(s, p, keys, bounded, n + 1)

\* s.replace(new RegExp(keys.join("|"), "g"), (match) => table[match]) from
\* offset p on: leftmost match, first alternative, no overlap.  A match of the
\* empty string (an empty key, or no key at all, which compiles to the empty
\* pattern) consumes nothing: the replacement is written and the next code
\* unit is copied.  A replacement the table does not hold is undefined.
RECURSIVE ReplaceFrom(_, _, _, _, _)
ReplaceFrom(s, p, keys, vals, bounded) ==
    LET alts == IF keys = << >> THEN << << >> >> ELSE keys
        n    == FirstAlternative(s, p, alts, bounded, 1)
        repl == IF keys = << >> \/ n > Len(vals) THEN UndefinedText ELSE vals[n]
    IN  IF p > Len(s) THEN << >>
        ELSE IF n = 0
             THEN IF p = Len(s) THEN << >>
                  ELSE <<s[p + 1]>> \o ReplaceFrom(s, p + 1, keys, vals, bounded)
        ELSE IF Len(alts[n]) = 0
             THEN repl \o (IF p = Len(s) THEN << >>
                           ELSE <<s[p + 1]>> \o ReplaceFrom(s, p + 1, keys, vals, bounded))
        ELSE repl \o ReplaceFrom(s, p + Len(alts[n]), keys, vals, bounded)

(***************************************************************************)
(* Normaliser (analyse, the expression handed to traditional_to_simplfiied)*)
(***************************************************************************)
\* raw.toLowerCase()
ToLowerCase(s) == [k \in 1..Len(s) |-> IF s[k] \in UpperLetters THEN LowerOf[s[k]] ELSE s[k]]

\* the class [a-zA-Z0-9\.-] of the t.co pattern
IsLinkChar(c) == c \in LowerLetters \cup UpperLetters \cup Digits \cup {".", "-"}

\* the offset after the longest run of link characters starting at offset p
RECURSIVE LinkTailEnd(_, _)
LinkTailEnd(s, p) ==
    IF p < Len(s) /\ IsLinkChar(s[p + 1]) THEN LinkTailEnd(s, p + 1) ELSE p

HttpText == <<"h","t","t","p">>
SchemeTailText == <<":","/","/","t">>
CoSlashText == <<"c","o","/">>

\* the end offset of a match of /https?:\/\/t.co\/[a-zA-Z0-9\.-]*/ at offset
\* p, or -1: the dot of "t.co" is unescaped and takes any code unit but a
\* line terminator.
ShortLinkEnd(s, p) ==
    LET q == IF OccursAt(s, p, HttpText \o <<"s">> \o SchemeTailText) THEN p + 9
             ELSE IF OccursAt(s, p, HttpText \o SchemeTailText) THEN p + 8
             ELSE -1
    IN  IF q >= 0 /\ q < Len(s) /\ s[q + 1] # "\n" /\ OccursAt(s, q + 1, CoSlashText)
        THEN LinkTailEnd(s, q + 4)
        ELSE -1

\* .replace(/https?:\/\/t.co\/[a-zA-Z0-9\.-]*/g, "") from offset p on
RECURSIVE StripShortLinks(_, _)
StripShortLinks(s, p) ==
    IF p >= Len(s) THEN << >>
    ELSE IF ShortLinkEnd(s, p) >= 0 THEN StripShortLinks(s, ShortLinkEnd(s, p))
    ELSE <<s[p + 1]>> \o StripShortLinks(s, p + 1)

\* .replace(/(\w)'s/g, "$1 is") from offset p on
RECURSIVE ExpandPossessive(_, _)
ExpandPossessive(s, p) ==
    IF p >= Len(s) THEN << >>
    ELSE IF IsWordChar(s[p + 1]) /\ OccursAt(s, p + 1, <<"'", "s">>)
         THEN <<s[p + 1], " ", "i", "s">> \o ExpandPossessive(s, p + 3)
         ELSE <<s[p + 1]>> \o ExpandPossessive(s, p + 1)

\* OpenCC.Converter({ from: "hk", to: "cn" }), an external conversion, on the
\* modelled alphabet: the traditional mai3 becomes the simplified one and
\* every other code unit is kept.
traditional_to_simplfiied(s) ==
    [k \in 1..Len(s) |-> IF s[k] = "U+8CB7" THEN "U+4E70" ELSE s[k]]

\* the normaliser without its alias substitution
NormalizeWithoutAliases(raw, cfg) ==
    LET lowered  == ToLowerCase(raw)
        unlinked == StripShortLinks(lowered, 0)
        replaced == ReplaceFrom(unlinked, 0, cfg.replace_keys, cfg.replace_vals, FALSE)
        expanded == ExpandPossessive(replaced, 0)
    IN  traditional_to_simplfiied(expanded)

\* the value of `normalized` for a raw post under a configuration
Normalize(raw, cfg) ==
    LET lowered  == ToLowerCase(raw)
        unlinked == StripShortLinks(lowered, 0)
        replaced == ReplaceFrom(unlinked, 0, cfg.replace_keys, cfg.replace_vals, FALSE)
        aliased  == ReplaceFrom(replaced, 0, cfg.alias_keys, cfg.alias_vals, TRUE)
        expanded == ExpandPossessive(aliased, 0)
    IN  traditional_to_simplfiied(expanded)

(***************************************************************************)
(* Segmenter: Intl.Segmenter(["en-US", "zh"], { granularity: "word" }), an *)
(* external service (ICU's word break iterator).  The model follows ICU's  *)
(* word rules on the modelled alphabet: the Unicode word-boundary rules    *)
(* (UAX #29) for letters, digits, the underscore and spaces, and, for a    *)
(* run of ideographs and kana, the dictionary division of ICU's CJK break  *)
(* engine.                                                                 *)
(***************************************************************************)
\* the words of ICU's dictionary over the modelled ideographs and kana that
\* are cheaper than their code units taken one by one: niu2 shi4 ("bull
\* market") and mai3 mai3 (simplified)
CJDictionary == { <<"U+725B", "U+5E02">>, <<"U+4E70", "U+4E70">> }

IsLetter(c) == c \in LowerLetters \cup UpperLetters
IsDigit(c) == c \in Digits
IsCJ(c) == c \in HanChars \cup {"U+306E"}

\* Word_Break = MidLetter, MidNumLet or Single_Quote: joins two letters
IsMidLetter(c) == c \in {":", ".", "'"}

\* Word_Break = MidNum, MidNumLet or Single_Quote: joins two digits
IsMidNum(c) == c \in {",", ";", ".", "'"}

\* the end offset of the letter/digit word whose last accepted code unit is
\* at offset p - 1 (WB5-WB13b without the rules for scripts the alphabet lacks)
RECURSIVE WordRunEnd(_, _)
WordRunEnd(s, p) ==
    LET e == s[p]
        d == IF p < Len(s) THEN s[p + 1] ELSE ""
        f == IF p + 1 < Len(s) THEN s[p + 2] ELSE ""
    IN  IF p >= Len(s) THEN p
        ELSE IF IsWordChar(d) THEN WordRunEnd(s, p + 1)
        ELSE IF IsLetter(e) /\ IsMidLetter(d) /\ IsLetter(f) THEN WordRunEnd(s, p + 2)
        ELSE IF IsDigit(e) /\ IsMidNum(d) /\ IsDigit(f) THEN WordRunEnd(s, p + 2)
        ELSE p

\* the end offset of the run of spaces starting at offset p (WB3d)
RECURSIVE SpaceRunEnd(_, _)
SpaceRunEnd(s, p) == IF p < Len(s) /\ s[p + 1] = " " THEN SpaceRunEnd(s, p + 1) ELSE p

\* the offset at which the run of ideographs and kana around offset p starts
RECURSIVE CJRunStart(_, _)
CJRunStart(s, p) == IF p > 0 /\ IsCJ(s[p]) THEN CJRunStart(s, p - 1) ELSE p

\* the offset at which the run of ideographs and kana from offset p on ends
RECURSIVE CJRunEnd(_, _)
CJRunEnd(s, p) == IF p < Len(s) /\ IsCJ(s[p + 1]) THEN CJRunEnd(s, p + 1) ELSE p

\* the cost of a candidate word in the division of a run.  The dictionary's
\* frequencies are data of ICU; what a division depends on is that a listed
\* word costs less than its code units one by one.
WordCost(w) == IF w \in CJDictionary THEN 2 * Len(w) - 1 ELSE 2

\* a cost above that of every division of the run: the position is not reached
Unreached(run) == 2 * Len(run) + 1

\* the candidate words of length len and more that start at offset k of the
\* run (its single code unit and the listed words), tried in turn: a
\* candidate replaces the best division known for its end offset only when
\* it is strictly cheaper
RECURSIVE CJRelax(_, _, _, _)
CJRelax(run, tab, k, len) ==
    IF k + len > Len(run) THEN tab
    ELSE LET w == SubSeq(run, k + 1, k + len)
             cost == tab.best[k + 1] + WordCost(w)
             better == (len = 1 \/ w \in CJDictionary) /\ cost < tab.best[k + len + 1]
             next == IF better
                     THEN [best |-> [tab.best EXCEPT ![k + len + 1] = cost],
                           prev |-> [tab.prev EXCEPT ![k + len + 1] = k]]
                     ELSE tab
         IN  CJRelax(run, next, k, len + 1)

\* the cheapest divisions of the prefixes of the run, offsets taken in order
RECURSIVE CJTable(_, _, _)
CJTable(run, tab, k) ==
    IF k >= Len(run) THEN tab ELSE CJTable(run, CJRelax(run, tab, k, 1), k + 1)

\* best[q + 1]: the cost of the cheapest division of the first q code units;
\* prev[q + 1]: where the last word of that division starts
CJDivision(run) ==
    CJTable(run,
            [best |-> [q \in 1..(Len(run) + 1) |-> IF q = 1 THEN 0 ELSE Unreached(run)],
             prev |-> [q \in 1..(Len(run) + 1) |-> 0]],
            0)

\* the end offset of the word of the division that holds offset k, walking
\* back from the word that ends at offset e
RECURSIVE CJWordEnd(_, _, _)
CJWordEnd(tab, k, e) == IF tab.prev[e + 1] <= k THEN e ELSE CJWordEnd(tab, k, tab.prev[e + 1])

\* the end offset of the segment that starts at offset p < Len(s)
SegmentEnd(s, p) ==
    LET c == s[p + 1]
        a == CJRunStart(s, p)
        b == CJRunEnd(s, p)
    IN  IF IsWordChar(c) THEN WordRunEnd(s, p + 1)
        ELSE IF c = " " THEN SpaceRunEnd(s, p)
        ELSE IF IsCJ(c) THEN a + CJWordEnd(CJDivision(SubSeq(s, a + 1, b)), p - a, b - a)
        ELSE p + 1

\* the rule status of a segment (UBRK_WORD_NONE 0, NUMBER 100, LETTER 200,
\* IDEO 400): that of the rule that accepted its last code unit.  An
\* underscore takes the status of the word it extends; alone it has none.
WordStatus(t) ==
    LET c == t[Len(t)]
    IN  IF IsCJ(c) THEN 400
        ELSE IF IsLetter(c) THEN 200
        ELSE IF IsDigit(c) THEN 100
        ELSE IF c = "_" /\ Len(t) > 1 THEN (IF IsDigit(t[Len(t) - 1]) THEN 100 ELSE 200)
        ELSE 0

\* isWordLike of a segment: its rule status is not UBRK_WORD_NONE
IsWordLikeText(t) == Len(t) > 0 /\ WordStatus(t) # 0

\* [...segmenter.segment(s)] from offset p on: {segment, isWordLike} records
RECURSIVE SegmentFrom(_, _)
SegmentFrom(s, p) ==
    IF p >= Len(s) THEN << >>
    ELSE LET q == SegmentEnd(s, p)
             t == SubSeq(s, p + 1, q)
         IN  << [segment |-> t, isWordLike |-> IsWordLikeText(t)] >> \o SegmentFrom(s, q)

Segment(s) == SegmentFrom(s, 0)

\* segs.map((x) => x.segment)
TextsOf(segs) == [k \in 1..Len(segs) |-> segs[k].segment]

\* [...segmenter.segment(s)].map((x) => x.segment)
SegmentTexts(s) == TextsOf(Segment(s))

(***************************************************************************)
(* Number(text): the StringToNumber grammar, as far as NaN or not          *)
(***************************************************************************)
\* StrWhiteSpaceChar of the modelled alphabet
IsWhiteSpace(c) == c \in {" ", "\n"}

RECURSIVE TrimStart(_)
TrimStart(s) == IF s # << >> /\ IsWhiteSpace(s[1]) THEN TrimStart(Tail(s)) ELSE s

RECURSIVE TrimEnd(_)
TrimEnd(s) ==
    IF s # << >> /\ IsWhiteSpace(s[Len(s)]) THEN TrimEnd(SubSeq(s, 1, Len(s) - 1)) ELSE s

\* String.prototype.trim
Trim(s) == TrimEnd(TrimStart(s))

\* the offset after the run of decimal digits starting at offset p
RECURSIVE DigitsEnd(_, _)
DigitsEnd(s, p) == IF p < Len(s) /\ IsDigit(s[p + 1]) THEN DigitsEnd(s, p + 1) ELSE p

InfinityText == <<"I","n","f","i","n","i","t","y">>

\* StrDecimalLiteral: [+-]? (Infinity | digits [. digits?] [exp] | . digits [exp])
IsStrDecimalLiteral(s) ==
    LET p0 == IF s # << >> /\ s[1] \in {"+", "-"} THEN 1 ELSE 0
        a  == DigitsEnd(s, p0)
        dot == a < Len(s) /\ s[a + 1] = "."
        b  == IF dot THEN DigitsEnd(s, a + 1) ELSE a
        mantissa == (a > p0) \/ (dot /\ b > a + 1)
        hasExp == b < Len(s) /\ s[b + 1] \in {"e", "E"}
        c0 == IF b + 1 < Len(s) /\ s[b + 2] \in {"+", "-"} THEN b + 2 ELSE b + 1
        c  == DigitsEnd(s, c0)
    IN  \/ Drop(s, p0) = InfinityText
        \/ /\ mantissa
           /\ IF hasExp THEN c > c0 /\ c = Len(s) ELSE b = Len(s)

HexDigits == Digits \cup {"a","b","c","d","e","f","A","B","C","D","E","F"}

\* NonDecimalIntegerLiteral: 0x.., 0o.., 0b.. (unsigned)
IsNonDecimalLiteral(s) ==
    /\ Len(s) >= 3
    /\ s[1] = "0"
    /\ LET allowed == CASE s[2] \in {"x", "X"} -> HexDigits
                        [] s[2] \in {"o", "O"} -> {"0","1","2","3","4","5","6","7"}
                        [] s[2] \in {"b", "B"} -> {"0", "1"}
                        [] OTHER -> {}
       IN  \A k \in 3..Len(s) : s[k] \in allowed

\* Number.isNaN(Number(text)): the empty and the blank string convert to 0
NumberIsNaN(s) ==
    LET t == Trim(s)
    IN  ~(t = << >> \/ IsStrDecimalLiteral(t) \/ IsNonDecimalLiteral(t))

(***************************************************************************)
(* Ignore-list expansion (ignore_list)                                     *)
(***************************************************************************)
Vowels == {"a", "e", "i", "o", "u"}

\* pluralize(word, 0), an external library: the plural of the word, by the
\* regular rules of English (sibilant + es, consonant-y to ies, else + s).
pluralize(word) ==
    LET n == Len(word)
        last1 == IF n >= 1 THEN word[n] ELSE ""
        last2 == IF n >= 2 THEN word[n - 1] ELSE ""
    IN  IF n = 0 THEN << >>
        ELSE IF last1 \in {"s", "x", "z"} \/ (last1 = "h" /\ last2 \in {"c", "s"})
             THEN word \o <<"e", "s">>
        ELSE IF last1 = "y" /\ n >= 2 /\ last2 \in LowerLetters \ Vowels
             THEN SubSeq(word, 1, n - 1) \o <<"i", "e", "s">>
        ELSE word \o <<"s">>

\* the callback without the slice: the fourth entry repeats the third
IgnoreVariantsUnsliced(word) ==
    << word, pluralize(word), word \o <<"i","n","g">>, word \o <<"i","n","g">>,
       word \o <<"d">>, word \o <<"e","d">> >>

\* the flatMap callback: the six entries one base word contributes, in order
IgnoreVariants(word) ==
    << word,
       pluralize(word),
       word \o <<"i","n","g">>,
       SubSeq(word, 1, Len(word) - 1) \o <<"i","n","g">>,
       word \o <<"d">>,
       word \o <<"e","d">> >>

\* new Set(lines.map(trim).flatMap(...)) over the lines of the ignore file
IgnoreList(lines) ==
    UNION { {IgnoreVariants(Trim(lines[k]))[v] : v \in 1..6} : k \in 1..Len(lines) }

(***************************************************************************)
(* Term matcher and token classifier (analyse, the scan over `segments`)   *)
(***************************************************************************)
\* const terms = config.terms.map((term) => segment texts of term.toLowerCase())
Terms(cfg) == [k \in 1..Len(cfg.terms) |-> SegmentTexts(ToLowerCase(cfg.terms[k]))]

\* Math.max(...terms.map((term) => term.length)); Math.max() of nothing is
\* -Infinity, written 0 here: the window loop starts below 1 either way.
RECURSIVE MaxLength(_)
MaxLength(ts) ==
    IF ts = << >> THEN 0
    ELSE LET rest == MaxLength(Tail(ts))
         IN  IF Len(Head(ts)) > rest THEN Len(Head(ts)) ELSE rest

max_term_length(cfg) == MaxLength(Terms(cfg))

tags == {<<"@">>, <<"#">>, <<"$">>}

\* segments[k]?.isWordLike for a 0-based k
WordLikeAt(segs, k) == k < Len(segs) /\ segs[k + 1].isWordLike

\* segments[k]?.segment === t
TextIsAt(segs, k, t) == k < Len(segs) /\ segs[k + 1].segment = t

\* segments.slice(i, i + j + 1).map((x) => x.segment): cut short at the end
Potential(segs, i, j) ==
    LET hi == IF i + j + 1 < Len(segs) THEN i + j + 1 ELSE Len(segs)
    IN  [k \in 1..(hi - i) |-> segs[i + k].segment]

\* terms.filter(same length).find(every segment equal): the index of the
\* first configured term equal to the window, 0 for undefined
RECURSIVE FindTerm(_, _, _)
FindTerm(ts, potential, n) ==
    IF n > Len(ts) THEN 0
    ELSE IF Len(ts[n]) = Len(potential) /\ ts[n] = potential THEN n
    ELSE FindTerm(ts, potential, n + 1)

\* the inner loop run upwards, for (let j = 1; j < max_term_length; j++)
RECURSIVE FindWindowUp(_, _, _, _, _)
FindWindowUp(segs, ts, i, j, top) ==
    IF j > top THEN [j |-> 0, term |-> 0]
    ELSE IF FindTerm(ts, Potential(segs, i, j), 1) # 0
         THEN [j |-> j, term |-> FindTerm(ts, Potential(segs, i, j), 1)]
         ELSE FindWindowUp(segs, ts, i, j + 1, top)

FindWindowShortestFirst(segs, ts, i, j) == FindWindowUp(segs, ts, i, 1, j)

\* for (let j = max_term_length - 1; j > 0; j--): the first j whose window
\* is a configured term, with that term; j = 0 when no window matches
RECURSIVE FindWindow(_, _, _, _)
FindWindow(segs, ts, i, j) ==
    IF j <= 0 THEN [j |-> 0, term |-> 0]
    ELSE IF FindTerm(ts, Potential(segs, i, j), 1) # 0
         THEN [j |-> j, term |-> FindTerm(ts, Potential(segs, i, j), 1)]
         ELSE FindWindow(segs, ts, i, j - 1)

\* the value of i when the while loop of the hyphen rule ends
RECURSIVE HyphenChainEnd(_, _)
HyphenChainEnd(segs, i) ==
    IF TextIsAt(segs, i + 1, <<"-">>) /\ WordLikeAt(segs, i + 2)
    THEN HyphenChainEnd(segs, i + 2)
    ELSE i

\* group: the texts at i, i + 2, ..., last
HyphenGroup(segs, i, last) == [k \in 1..((last - i) \div 2 + 1) |-> segs[i + 2 * (k - 1) + 1].segment]

\* where the cursor stands after a term of window j matched at i: the code
\* adds j + 1 and `continue outer` then runs the loop's own i++
CursorAfterTerm(i, j) == (i + j + 1) + 1

\* One iteration of the outer loop at cursor i < segments.length: the rule
\* that fires, the token pushed (pushed FALSE for none), the number of
\* segments the token is made of, and the cursor the next iteration starts at.
ScanStep(segs, ts, maxlen, i) ==
    LET win == FindWindow(segs, ts, i, maxlen - 1)
        cur == segs[i + 1]
        chainEnd == HyphenChainEnd(segs, i)
    IN  IF win.j > 0
        THEN [rule |-> "term", pushed |-> TRUE, token |-> Flatten(ts[win.term]),
              consumed |-> Len(ts[win.term]), i |-> CursorAfterTerm(i, win.j)]
        ELSE IF /\ cur.segment \in tags
                /\ WordLikeAt(segs, i + 1)
                /\ NumberIsNaN(segs[i + 2].segment)
        THEN [rule |-> "tag", pushed |-> TRUE,
              token |-> cur.segment \o segs[i + 2].segment,
              consumed |-> 2, i |-> (i + 1) + 1]
        ELSE IF cur.isWordLike /\ TextIsAt(segs, i + 1, <<"-">>)
        THEN [rule |-> "hyphen", pushed |-> TRUE,
              token |-> JoinWith(HyphenGroup(segs, i, chainEnd), <<"-">>),
              consumed |-> chainEnd - i + 1, i |-> chainEnd + 1]
        ELSE IF cur.isWordLike /\ NumberIsNaN(cur.segment)
        THEN [rule |-> "word", pushed |-> TRUE, token |-> cur.segment,
              consumed |-> 1, i |-> i + 1]
        ELSE [rule |-> "none", pushed |-> FALSE, token |-> << >>,
              consumed |-> 0, i |-> i + 1]

\* the whole scan from cursor i on: the final `words`
RECURSIVE ScanFrom(_, _, _, _, _)
ScanFrom(segs, ts, maxlen, i, ws) ==
    IF i >= Len(segs) THEN ws
    ELSE LET st == ScanStep(segs, ts, maxlen, i)
         IN  ScanFrom(segs, ts, maxlen, st.i, IF st.pushed THEN Append(ws, st.token) ELSE ws)

\* `words` for a raw post
Tokenize(raw, cfg) ==
    ScanFrom(Segment(Normalize(raw, cfg)), Terms(cfg), max_term_length(cfg), 0, << >>)

(***************************************************************************)
(* Language classifier (is_chinese)                                        *)
(***************************************************************************)
\* words.filter((x) => !!x.match(HAN_REGEX)).length
HanCount(ws) == Cardinality({k \in 1..Len(ws) : MatchesHan(ws[k])})

\* Math.floor(words.length * config.hanzi_percentage), the percentage a
\* dyadic fraction num/den (exact in floating point)
HanziFloor(n, cfg) == (n * cfg.hanzi_percentage.num) \div cfg.hanzi_percentage.den

\* the comparison made inclusive
IsChineseInclusive(ws, cfg) == HanCount(ws) >= HanziFloor(Len(ws), cfg)

IsChinese(ws, cfg) == HanCount(ws) > HanziFloor(Len(ws), cfg)

(***************************************************************************)
(* Canonicaliser / deduplicator (unique_words)                             *)
(***************************************************************************)
RECURSIVE IndexOf(_, _, _)
IndexOf(keys, w, n) ==
    IF n > Len(keys) THEN 0 ELSE IF keys[n] = w THEN n ELSE IndexOf(keys, w, n + 1)

\* property names every object inherits from Object.prototype: `w in
\* config.aliases` is true of them although the table does not list them
ObjectPrototypeKeys ==
    { <<"c","o","n","s","t","r","u","c","t","o","r">>,
      <<"h","a","s","O","w","n","P","r","o","p","e","r","t","y">>,
      <<"i","s","P","r","o","t","o","t","y","p","e","O","f">>,
      <<"p","r","o","p","e","r","t","y","I","s","E","n","u","m","e","r","a","b","l","e">>,
      <<"t","o","L","o","c","a","l","e","S","t","r","i","n","g">>,
      <<"t","o","S","t","r","i","n","g">>,
      <<"v","a","l","u","e","O","f">>,
      <<"_","_","d","e","f","i","n","e","G","e","t","t","e","r","_","_">>,
      <<"_","_","d","e","f","i","n","e","S","e","t","t","e","r","_","_">>,
      <<"_","_","l","o","o","k","u","p","G","e","t","t","e","r","_","_">>,
      <<"_","_","l","o","o","k","u","p","S","e","t","t","e","r","_","_">>,
      <<"_","_","p","r","o","t","o","_","_">> }

\* the value read for an inherited property: a function or an object, not a
\* string; written as the marker followed by the property name
InheritedValue(w) == <<"Object.prototype.">> \o w

IsString(v) == v = << >> \/ v[1] # "Object.prototype."

\* w in config.aliases ? config.aliases[w] : w
AliasOf(w, cfg) ==
    IF ~IsString(w) THEN w
    ELSE IF IndexOf(cfg.alias_keys, w, 1) # 0 THEN cfg.alias_vals[IndexOf(cfg.alias_keys, w, 1)]
    ELSE IF w \in ObjectPrototypeKeys THEN InheritedValue(w)
    ELSE w

\* words.map((w) => ...)
MapAliases(ws, cfg) == [k \in 1..Len(ws) |-> AliasOf(ws[k], cfg)]

\* [...new Set(list)]: first occurrences, in order
RECURSIVE Dedupe(_)
Dedupe(ws) ==
    IF ws = << >> THEN << >>
    ELSE LET init == Dedupe(SubSeq(ws, 1, Len(ws) - 1))
             w == ws[Len(ws)]
         IN  IF \E k \in 1..Len(init) : init[k] = w THEN init ELSE Append(init, w)

\* the deduplication without the alias map
UniqueWordsUnmapped(ws, cfg) == Dedupe(ws)

UniqueWords(ws, cfg) == Dedupe(MapAliases(ws, cfg))

(***************************************************************************)
(* Filter pipeline (the predicate of unique_words.filter)                  *)
(***************************************************************************)
\* whether cmc.fiat is defined: the file has a property of that name
HasFiat(c) == "fiat" \in DOMAIN c

\* cmc.fiat.map((x) => x.sign): the alternatives of FIAT_REGEX, each escaped
\* and so matched literally
FiatSigns(c) == [k \in 1..Len(c.fiat) |-> c.fiat[k].sign]

\* w.replace(FIAT_REGEX, ""): FIAT_REGEX is the alternation of the signs
StripFiat(w, signs) ==
    IF signs = << >> THEN w
    ELSE ReplaceFrom(w, 0, signs, [k \in 1..Len(signs) |-> << >>], FALSE)

IsAmountChar(c) == c \in {"k", "m", "b", "t", ",", "-"}

\* .replace(/[kmbt,-]/g, "")
StripAmountChars(w) == SelectSeq(w, LAMBDA c : ~IsAmountChar(c))

\* config.ignore_all_hanzi ? !w.match(HAN_REGEX) : true
PassesHanziFlag(w, cfg) == cfg.ignore_all_hanzi => ~MatchesHan(w)

\* config.ignore_all_hiragana ? !w.match(HIRAGANA_REGEX) : true
PassesHiraganaFlag(w, cfg) == cfg.ignore_all_hiragana => ~MatchesHiragana(w)

\* Number.isNaN(Number(w.replace(FIAT_REGEX, "").replace(/[kmbt,-]/g, "")))
PassesNumeric(w, signs) == NumberIsNaN(StripAmountChars(StripFiat(w, signs)))

\* the length floor one character higher
PassesLengthFloorOfThree(w) == (~MatchesHan(w) /\ ~MatchesHiragana(w)) => Len(w) > 3

\* !w.match(HAN_REGEX) && !w.match(HIRAGANA_REGEX) ? w.length > 2 : true
PassesLengthFloor(w) == (~MatchesHan(w) /\ ~MatchesHiragana(w)) => Len(w) > 2

\* w.replace(/[^a-z]/g, "").length > Math.floor(w.length * 0.6)
PassesLetterShare(w) ==
    Len(SelectSeq(w, LAMBDA c : c \in LowerLetters)) > (Len(w) * 6) \div 10

\* !ignore_list.has(w)
PassesIgnoreList(w, cfg) == w \notin IgnoreList(cfg.ignore_lines)

\* the first predicate that rejects w ("" when all pass), in the order of
\* the && chain
Rejection(w, cfg, signs) ==
    IF ~PassesHanziFlag(w, cfg) THEN "hanzi"
    ELSE IF ~PassesHiraganaFlag(w, cfg) THEN "hiragana"
    ELSE IF ~PassesNumeric(w, signs) THEN "numeric"
    ELSE IF ~PassesLengthFloor(w) THEN "length"
    ELSE IF ~MatchesAllAscii(w) THEN "ascii"
    ELSE IF ~PassesLetterShare(w) THEN "letters"
    ELSE IF ~PassesIgnoreList(w, cfg) THEN "ignored"
    ELSE ""

\* the predicate chain without the all-ASCII test
KeepWithoutAscii(w, cfg, signs) == Rejection(w, cfg, signs) \in {"", "ascii"}

Keep(w, cfg, signs) == Rejection(w, cfg, signs) = ""

\* unique_words.filter(...)
FilterWords(ws, cfg, signs) == SelectSeq(ws, LAMBDA w : Keep(w, cfg, signs))

\* a word that is no string has no match/replace method: the predicate
\* throws a TypeError and analyse returns nothing
FilterThrows(ws) == \E k \in 1..Len(ws) : ~IsString(ws[k])

(***************************************************************************)
(* Texts and configurations the model is run on                            *)
(***************************************************************************)
T_stop == <<"s","t","o","p">>
T_loss == <<"l","o","s","s">>
T_now == <<"n","o","w">>
T_btc == <<"b","t","c">>
T_bitcoin == <<"b","i","t","c","o","i","n">>
T_to == <<"t","o">>
T_the == <<"t","h","e">>
T_moon == <<"m","o","o","n">>
T_run == <<"r","u","n">>
T_bull == <<"b","u","l","l">>
T_bullish == T_bull \o <<"i","s","h">>
T_niu == <<"U+725B">>
T_amp == <<"&","a","m","p",";">>
T_space == <<" ">>
T_hyphen == <<"-">>
T_hash == <<"#">>
T_five == <<"5">>

\* config.json is not part of the sources: configurations are inputs.
\* replaces, aliases: the key list (Object.keys order) and the value list.
BaseConfig ==
    [ replace_keys |-> << T_amp >>,
      replace_vals |-> << <<"&">> >>,
      alias_keys |-> << T_btc >>,
      alias_vals |-> << T_bitcoin >>,
      terms |-> << T_stop \o T_space \o T_loss >>,
      hanzi_percentage |-> [num |-> 1, den |-> 2],
      ignore_all_hanzi |-> FALSE,
      ignore_all_hiragana |-> FALSE,
      ignore_lines |-> << T_run >> ]

\* cmc.json is not part of the sources either.  util.ts reads cmc.fiat, a
\* list of {sign} entries: the dollar and the euro sign here.
CmcWithFiat == [ fiat |-> << [sign |-> <<"$">>], [sign |-> <<"U+20AC">>] >> ]

\* the file src/src/cmc.ts writes: an array of {name, symbol} entries, which
\* has no property named fiat
CmcListing == [ listing |-> << [name |-> T_bitcoin, symbol |-> T_btc] >> ]

CmcFiles == { CmcWithFiat, CmcListing }

\* Scenario A: terms = ["stop loss"], aliases = {"btc": "bitcoin"}
ConfigA == BaseConfig

\* Scenario B, "the" in the ignore file and not
ConfigB1 == [BaseConfig EXCEPT !.alias_keys = << <<"e","t","h">> >>,
                               !.alias_vals = << <<"e","t","h","e","r">> >>,
                               !.ignore_lines = << T_run, T_the >>]
ConfigB2 == [ConfigB1 EXCEPT !.ignore_lines = << T_run >>]

\* terms of three, two and one segment over the general alphabet; an alias
\* for an ideograph and one for a hashtag; an ignore file with a padded line
\* and an empty last line
ConfigG ==
    [BaseConfig EXCEPT
        !.terms = << T_stop \o T_space \o T_loss, T_stop \o T_hyphen \o T_loss,
                     T_stop \o T_hyphen, T_stop >>,
        !.alias_keys = << T_niu, T_hash \o T_stop >>,
        !.alias_vals = << T_bull, T_stop >>,
        !.ignore_lines = << T_run, <<" ">> \o T_loss, << >> >>]

\* both exclusion flags set
ConfigDrop == [ConfigG EXCEPT !.ignore_all_hanzi = TRUE, !.ignore_all_hiragana = TRUE]

\* an alias whose value is itself an alias key; a quarter threshold
ConfigChain == [ConfigG EXCEPT !.alias_keys = << T_niu, T_bull >>,
                               !.alias_vals = << T_bull, T_bullish >>,
                               !.hanzi_percentage = [num |-> 1, den |-> 4]]

\* the longest general post, in pieces
MaxPieces == 4

Pieces == { T_stop, T_loss, T_space, T_hyphen, T_five, T_hash, T_niu }

RECURSIVE PieceLists(_)
PieceLists(n) ==
    IF n = 0 THEN { << >> }
    ELSE LET shorter == PieceLists(n - 1)
         IN  shorter \cup { Append(ps, x) : ps \in {q \in shorter : Len(q) = n - 1}, x \in Pieces }

\* every post made of at most n pieces
GeneralRaws(n) == { Flatten(ps) : ps \in PieceLists(n) }

ScenarioA == <<"B","T","C">> \o T_space \o T_stop \o T_space \o T_loss \o T_space \o T_now
ScenarioB == <<"#","B","T","C">> \o T_space \o T_to \o T_space \o T_the \o T_space \o T_moon

ScenarioRaws ==
    { ScenarioA,
      <<"m","k","t">>,
      <<"1",".","2","k">>,
      <<"$","5","m">>,
      <<"c","o","n","s","t","r","u","c","t","o","r">> \o T_space \o T_now,
      T_btc \o <<"'","s">> \o T_space \o <<"U+8CB7">>,
      <<"h","t","t","p","s",":","/","/","t",".","c","o","/","a","B","1">> \o T_space \o T_moon,
      T_run \o T_amp \o T_run \o <<"s">>,
      T_moon \o <<":">> \o T_stop \o T_space \o T_now,
      <<"_","-","a"," ","#","_"," ","1",";","2">>,
      <<"U+4E70","U+4E70"," ","U+4E70","U+4E70","U+4E70"," ","a"," ","b">> }

\* (configuration, raw post) pairs analyse is called with
Inputs ==
    ({ConfigG} \X GeneralRaws(MaxPieces))
    \cup ({ConfigDrop, ConfigChain} \X GeneralRaws(MaxPieces - 1))
    \cup ({ConfigA} \X ScenarioRaws)
    \cup ({ConfigB1, ConfigB2} \X {ScenarioB})

(***************************************************************************)
(* The program as a state machine: module load, then one call of analyse   *)
(***************************************************************************)
VARIABLES
    config,        \* config.json, fixed for the life of the process
    cmc,           \* cmc.json, fixed for the life of the process
    ignore_list,   \* the expanded ignore set built at module load
    raw,           \* analyse's first argument
    no_filter,     \* analyse's option
    pc,            \* where the call stands
    terms,         \* the configured terms, segmented
    longest,       \* max_term_length
    segments,      \* [...segmenter.segment(normalized)]
    i,             \* the cursor of the outer loop (0-based)
    words,         \* the tokens pushed so far
    last,          \* the last iteration of the loop: cursor, rule, token
    is_chinese,
    unique_words,
    result         \* what analyse returned

vars == << config, cmc, ignore_list, raw, no_filter, pc, terms, longest, segments, i, words, last,
           is_chinese, unique_words, result >>

NoStep == [at |-> -1, rule |-> "", pushed |-> FALSE, token |-> << >>, consumed |-> 0]
NoResult == [returned |-> FALSE, is_chinese |-> FALSE, words |-> << >>]

\* The state after module load, at a call of analyse.  Line 42 reads
\* cmc.fiat.map: under a cmc.json without that property the load throws a
\* TypeError, the module exports nothing and analyse is never called.
Init ==
    /\ cmc \in CmcFiles
    /\ \E in \in Inputs : config = in[1] /\ raw = (IF HasFiat(cmc) THEN in[2] ELSE << >>)
    /\ ignore_list = IgnoreList(config.ignore_lines)
    /\ no_filter \in (IF HasFiat(cmc) THEN BOOLEAN ELSE {FALSE})
    /\ pc = (IF HasFiat(cmc) THEN "normalise" ELSE "load_threw")
    /\ terms = << >>
    /\ longest = 0
    /\ segments = << >>
    /\ i = 0
    /\ words = << >>
    /\ last = NoStep
    /\ is_chinese = FALSE
    /\ unique_words = << >>
    /\ result = NoResult

\* lines 85-99: normalise the post, segment the terms and the post
Normalise ==
    /\ pc = "normalise"
    /\ terms' = Terms(config)
    /\ longest' = MaxLength(terms')
    /\ segments' = Segment(Normalize(raw, config))
    /\ pc' = "scan"
    /\ UNCHANGED << config, cmc, ignore_list, raw, no_filter, i, words, last,
                    is_chinese, unique_words, result >>

\* the rule that fires at the cursor
RuleAtCursor == ScanStep(segments, terms, longest, i).rule

\* what one iteration of the outer loop does to the call's state
Advance ==
    LET st == ScanStep(segments, terms, longest, i)
    IN  /\ words' = IF st.pushed THEN Append(words, st.token) ELSE words
        /\ i' = st.i
        /\ last' = [at |-> i, rule |-> st.rule, pushed |-> st.pushed,
                    token |-> st.token, consumed |-> st.consumed]
        /\ UNCHANGED << config, cmc, ignore_list, raw, no_filter, pc, terms, longest,
                        segments, is_chinese, unique_words, result >>

\* lines 104-118: a window at the cursor is a configured term
ScanTerm ==
    /\ pc = "scan"
    /\ i < Len(segments)
    /\ RuleAtCursor = "term"
    /\ Advance

\* lines 120-131: twitter handle, hashtag, cashtag
ScanTag ==
    /\ pc = "scan"
    /\ i < Len(segments)
    /\ RuleAtCursor = "tag"
    /\ Advance

\* lines 133-146: words joined with hyphens
ScanHyphen ==
    /\ pc = "scan"
    /\ i < Len(segments)
    /\ RuleAtCursor = "hyphen"
    /\ Advance

\* lines 148-153: regular word
ScanWord ==
    /\ pc = "scan"
    /\ i < Len(segments)
    /\ RuleAtCursor = "word"
    /\ Advance

\* no rule fires: the loop moves on
ScanSkip ==
    /\ pc = "scan"
    /\ i < Len(segments)
    /\ RuleAtCursor = "none"
    /\ Advance

\* lines 156-157, once the loop has ended
Classify ==
    /\ pc = "scan"
    /\ i >= Len(segments)
    /\ is_chinese' = IsChinese(words, config)
    /\ pc' = "canonicalise"
    /\ UNCHANGED << config, cmc, ignore_list, raw, no_filter, terms, longest, segments, i, words, last,
                    unique_words, result >>

\* lines 159-161
Canonicalise ==
    /\ pc = "canonicalise"
    /\ unique_words' = UniqueWords(words, config)
    /\ pc' = "return"
    /\ UNCHANGED << config, cmc, ignore_list, raw, no_filter, terms, longest, segments, i, words, last,
                    is_chinese, result >>

\* line 163
ReturnUnfiltered ==
    /\ pc = "return"
    /\ no_filter
    /\ result' = [returned |-> TRUE, is_chinese |-> is_chinese, words |-> unique_words]
    /\ pc' = "done"
    /\ UNCHANGED << config, cmc, ignore_list, raw, no_filter, terms, longest, segments, i, words, last,
                    is_chinese, unique_words >>

\* lines 165-177
ReturnFiltered ==
    /\ pc = "return"
    /\ ~no_filter
    /\ ~FilterThrows(unique_words)
    /\ result' = [returned |-> TRUE, is_chinese |-> is_chinese,
                  words |-> FilterWords(unique_words, config, FiatSigns(cmc))]
    /\ pc' = "done"
    /\ UNCHANGED << config, cmc, ignore_list, raw, no_filter, terms, longest, segments, i, words, last,
                    is_chinese, unique_words >>

\* lines 167-176 on a word that is not a string
ThrowTypeError ==
    /\ pc = "return"
    /\ ~no_filter
    /\ FilterThrows(unique_words)
    /\ pc' = "threw"
    /\ UNCHANGED << config, cmc, ignore_list, raw, no_filter, terms, longest, segments, i, words, last,
                    is_chinese, unique_words, result >>

Next ==
    \/ Normalise
    \/ ScanTerm
    \/ ScanTag
    \/ ScanHyphen
    \/ ScanWord
    \/ ScanSkip
    \/ Classify
    \/ Canonicalise
    \/ ReturnUnfiltered
    \/ ReturnFiltered
    \/ ThrowTypeError

Spec == Init /\ [][Next]_vars

(***************************************************************************)
(* Properties                                                              *)
(***************************************************************************)
\* term t lies on the segments that start at the 0-based position k
MatchesAt(segs, t, k) ==
    /\ Len(t) >= 1
    /\ k + Len(t) <= Len(segs)
    /\ \A n \in 1..Len(t) : segs[k + n].segment = t[n]

\* the configured terms that lie on the segments at position k
TermsAt(k) == {a \in 1..Len(terms) : MatchesAt(segments, terms[a], k)}

\* the text of the n segments from position k on
WindowText(k, n) == Flatten([m \in 1..n |-> segments[k + m].segment])

\* the loop has run at least one iteration; `last` describes the latest
Stepped == last.at >= 0

\* the segment right after the term matched by the latest iteration
AfterTerm == last.at + last.consumed

\* C1: when a term matches n segments at cursor i, the scan resumes at
\* segment i + n, so a word-like, non-numeric segment directly after the
\* matched term is the next one examined (and becomes a token).
C1_WordAfterTermIsExamined ==
    (/\ Stepped
     /\ last.rule = "term"
     /\ WordLikeAt(segments, AfterTerm)
     /\ NumberIsNaN(segments[AfterTerm + 1].segment))
    => i = AfterTerm

\* C2: when configured terms of different segment lengths lie at the cursor,
\* the iteration emits the longest of them as its one token.
C2_LongestTermWins ==
    Stepped =>
        \A a, b \in TermsAt(last.at) :
            (/\ Len(terms[a]) > Len(terms[b])
             /\ \A c \in TermsAt(last.at) : Len(terms[c]) <= Len(terms[a]))
            => /\ last.rule = "term"
               /\ last.consumed = Len(terms[a])
               /\ last.token = WindowText(last.at, Len(terms[a]))
               /\ last.token # Flatten(terms[b])
               /\ words # << >> /\ words[Len(words)] = last.token

\* C2 witness: the three-segment term stop-loss was emitted where the terms
\* "stop-" (two segments) and "stop" (one segment) lie as well.
C2_Witness ==
    /\ Stepped
    /\ last.rule = "term"
    /\ last.consumed = 3
    /\ Cardinality({Len(terms[a]) : a \in TermsAt(last.at)}) = 3
    /\ last.token = T_stop \o T_hyphen \o T_loss

\* C9: a word-like segment that parses fully as a number, outside a matched
\* term, a tag+handle token and a hyphen chain of two or more words, yields
\* no token: every token made of one segment by the hyphen rule or the
\* plain-word rule is non-numeric.
C9_NoLoneNumericToken ==
    (/\ Stepped
     /\ last.pushed
     /\ last.rule \in {"hyphen", "word"}
     /\ last.consumed = 1)
    => NumberIsNaN(last.token)

\* the call has passed the language classifier
Classified == pc \in {"canonicalise", "return", "done", "threw"}

\* the call has passed the canonicaliser
Canonicalised == pc \in {"return", "done", "threw"}

\* the number of ideograph tokens of a list, duplicates counted
RECURSIVE IdeographTokens(_)
IdeographTokens(ws) ==
    IF ws = << >> THEN 0
    ELSE (IF \E k \in 1..Len(Head(ws)) : Head(ws)[k] \in HanChars THEN 1 ELSE 0)
         + IdeographTokens(Tail(ws))

\* C3: is_chinese is true iff the ideograph tokens of the tokenizer's list
\* (before aliases and deduplication) strictly exceed floor(count * share):
\* n > floor(t * num / den) iff n * den > t * num.  With a share of one half
\* and four tokens, two ideograph tokens give false and three give true; an
\* empty list gives false.  The returned flag is that value.
C3_ChineseThreshold ==
    Classified =>
        LET n == IdeographTokens(words)
            t == Len(words)
            share == config.hanzi_percentage
        IN  /\ is_chinese <=> (n * share.den > t * share.num)
            /\ (share.num = 1 /\ share.den = 2 /\ t = 4 /\ n = 2) => ~is_chinese
            /\ (share.num = 1 /\ share.den = 2 /\ t = 4 /\ n = 3) => is_chinese
            /\ t = 0 => ~is_chinese
            /\ result.returned => result.is_chinese = is_chinese

\* C3 witness: four tokens, two of them ideograph tokens that the alias table
\* and the deduplication later merge into one word, a share of one half:
\* not Chinese.
C3_Witness ==
    /\ pc = "done"
    /\ config.hanzi_percentage = [num |-> 1, den |-> 2]
    /\ Len(words) = 4
    /\ IdeographTokens(words) = 2
    /\ Len(unique_words) < 4
    /\ ~result.is_chinese

\* C4 (as stated): for "#BTC to the moon", "#btc" and "moon" not ignored,
\* the tokens "to" and "the" are both dropped by the length floor and the
\* filtered words are exactly ["#btc", "moon"].
C4_ScenarioB_AsStated ==
    (/\ pc = "done"
     /\ ~no_filter
     /\ raw = ScenarioB
     /\ (T_hash \o T_btc) \notin ignore_list
     /\ T_moon \notin ignore_list)
    => /\ words = << T_hash \o T_btc, T_to, T_the, T_moon >>
       /\ ~PassesLengthFloor(T_to)
       /\ ~PassesLengthFloor(T_the)
       /\ result.words = << T_hash \o T_btc, T_moon >>

\* C4 (amended): the tag rule yields "#btc"; "to" fails the length floor;
\* "the" has three characters and passes it, passes every other predicate
\* but the ignore list, and is dropped exactly when the ignore set holds it.
C4_ScenarioB ==
    (/\ pc = "done"
     /\ ~no_filter
     /\ raw = ScenarioB
     /\ (T_hash \o T_btc) \notin ignore_list
     /\ T_moon \notin ignore_list)
    => /\ words = << T_hash \o T_btc, T_to, T_the, T_moon >>
       /\ Rejection(T_to, config, FiatSigns(cmc)) = "length"
       /\ PassesLengthFloor(T_the)
       /\ Rejection(T_the, config, FiatSigns(cmc)) = (IF T_the \in ignore_list THEN "ignored" ELSE "")
       /\ result.words = IF T_the \in ignore_list
                         THEN << T_hash \o T_btc, T_moon >>
                         ELSE << T_hash \o T_btc, T_the, T_moon >>

\* C4 witness: the scenario under an ignore file without "the"
C4_Witness ==
    /\ pc = "done"
    /\ ~no_filter
    /\ raw = ScenarioB
    /\ T_the \notin ignore_list
    /\ result.words = << T_hash \o T_btc, T_the, T_moon >>

T_runs == T_run \o <<"s">>
T_running == <<"r","u","n","n","i","n","g">>
T_runing == <<"r","u","n","i","n","g">>
T_ruing == <<"r","u","i","n","g">>
T_rund == <<"r","u","n","d">>
T_runed == <<"r","u","n","e","d">>

\* the base words of the ignore file: its lines, trimmed
BaseWords == {Trim(config.ignore_lines[k]) : k \in 1..Len(config.ignore_lines)}

\* s without its last code unit
DropLast(s) == IF s = << >> THEN s ELSE [k \in 1..(Len(s) - 1) |-> s[k]]

\* the general part of C5: every base word brings itself, its plural, +ing,
\* last character dropped +ing, +d and +ed into the set
ExpansionHolds ==
    \A w \in BaseWords :
        { w, pluralize(w), w \o <<"i","n","g">>, DropLast(w) \o <<"i","n","g">>,
          w \o <<"d">>, w \o <<"e","d">> } \subseteq ignore_list

\* C5 (as stated): the expansion holds and, for the base word "run", the set
\* holds "run", its plural, "running", "runing", "rund" and "runed".
C5_Expansion_AsStated ==
    /\ ExpansionHolds
    /\ T_run \in BaseWords =>
           {T_run, T_runs, T_running, T_runing, T_rund, T_runed} \subseteq ignore_list

\* C5 (amended): the expansion holds; for "run" the set holds "run", "runs",
\* "runing", "ruing", "rund" and "runed".  No variant doubles the final
\* consonant: "running" is in the set only if another base word brings it.
C5_Expansion ==
    /\ ExpansionHolds
    /\ T_run \in BaseWords =>
           /\ {T_run, T_runs, T_runing, T_ruing, T_rund, T_runed} \subseteq ignore_list
           /\ T_running \in ignore_list =>
                  \E w \in BaseWords \ {T_run} :
                      \E v \in 1..6 : IgnoreVariants(w)[v] = T_running

\* C5 witness: an analysis under an ignore file holding "run" has dropped
\* the tokens "run" and "runs" as ignored, and "running" is not in the set.
C5_Witness ==
    /\ pc = "done"
    /\ ~no_filter
    /\ T_run \in BaseWords
    /\ T_ruing \in ignore_list
    /\ T_running \notin ignore_list
    /\ unique_words = << T_run, T_runs >>
    /\ result.words = << >>

\* a string of one or more letters a-z
IsAlphabetic(w) == w # << >> /\ \A k \in 1..Len(w) : w[k] \in LowerLetters

\* C6: the numeric-amount predicate rejects "1.2k" and "$5m" and lets every
\* token made only of letters a-z pass.
C6_AlphabeticPassesNumeric ==
    Canonicalised =>
        \A k \in 1..Len(unique_words) :
            LET w == unique_words[k]
            IN  /\ w \in { <<"1",".","2","k">>, <<"$","5","m">> } => ~PassesNumeric(w, FiatSigns(cmc))
                /\ IsAlphabetic(w) => PassesNumeric(w, FiatSigns(cmc))

\* no alias value is rewritten by the table (as an own key with another
\* value, or as a property name the table inherits)
Unchained(cfg) ==
    \A k \in 1..Len(cfg.alias_vals) : AliasOf(cfg.alias_vals[k], cfg) = cfg.alias_vals[k]

\* mapping the tokens twice gives what mapping them once gives, and the
\* words kept are left alone by the alias map
AliasFixedPoint ==
    /\ MapAliases(MapAliases(words, config), config) = MapAliases(words, config)
    /\ \A k \in 1..Len(unique_words) : AliasOf(unique_words[k], config) = unique_words[k]
    /\ \A k \in 1..Len(result.words) : AliasOf(result.words[k], config) = result.words[k]

\* C7 (as stated): for every token list the alias map is idempotent and the
\* deduplicated words are a fixed point of it.
C7_Idempotent_AsStated == Canonicalised => AliasFixedPoint

\* C7 (amended): the same, for alias tables in which no value is itself
\* rewritten by the table; the map is applied once per token, never chained.
C7_Idempotent == (Canonicalised /\ Unchained(config)) => AliasFixedPoint

\* C7 witness: under an unchained table the map has rewritten a token
C7_Witness ==
    /\ pc = "done"
    /\ Unchained(config)
    /\ \E k \in 1..Len(words) : AliasOf(words[k], config) # words[k]
    /\ T_bull = unique_words[1]

T_stop_loss == T_stop \o T_space \o T_loss

\* C8 (as stated): Scenario A gives the tokens ["btc", "stop loss", "now"],
\* the canonical list ["bitcoin", "stop loss", "now"], all kept, not Chinese.
C8_ScenarioA_AsStated ==
    (pc = "done" /\ ~no_filter /\ config = ConfigA /\ raw = ScenarioA)
    => /\ words = << T_btc, T_stop_loss, T_now >>
       /\ unique_words = << T_bitcoin, T_stop_loss, T_now >>
       /\ \A k \in 1..3 : Keep(unique_words[k], config, FiatSigns(cmc))
       /\ result = [returned |-> TRUE, is_chinese |-> FALSE,
                    words |-> << T_bitcoin, T_stop_loss, T_now >>]

\* C8 (amended): the normaliser has already written "bitcoin" for "btc", so
\* the tokens after term matching are ["bitcoin", "stop loss", "now"]; the
\* canonicaliser changes nothing; all three are kept and the result is
\* {is_chinese: false, words: ["bitcoin", "stop loss", "now"]}.
C8_ScenarioA ==
    (pc = "done" /\ ~no_filter /\ config = ConfigA /\ raw = ScenarioA)
    => /\ segments[1].segment = T_bitcoin
       /\ words = << T_bitcoin, T_stop_loss, T_now >>
       /\ unique_words = words
       /\ \A k \in 1..3 : Keep(unique_words[k], config, FiatSigns(cmc))
       /\ result = [returned |-> TRUE, is_chinese |-> FALSE,
                    words |-> << T_bitcoin, T_stop_loss, T_now >>]

\* C8 witness: Scenario A has returned its three words through the filter
C8_Witness ==
    /\ pc = "done"
    /\ ~no_filter
    /\ config = ConfigA
    /\ raw = ScenarioA
    /\ result.words = << T_bitcoin, T_stop_loss, T_now >>

\* C10: every word of a filtered result is all-ASCII, so none holds an
\* ideograph or a kana-range character whatever the two exclusion flags are,
\* and no one-character ideograph token reaches the filtered result.
C10_FilteredIsAscii ==
    (result.returned /\ ~no_filter) =>
        /\ \A k \in 1..Len(result.words) :
               /\ result.words[k] # << >>
               /\ \A n \in 1..Len(result.words[k]) :
                      result.words[k][n] \notin (NonAsciiChars \cup HanChars \cup KanaRangeChars)
        /\ \A k \in 1..Len(unique_words) :
               (Len(unique_words[k]) = 1 /\ unique_words[k][1] \in HanChars)
               => \A m \in 1..Len(result.words) : result.words[m] # unique_words[k]

\* C10 witness: with both flags off, a one-character ideograph token passed
\* the length floor and is not in the filtered result, which kept a word.
C10_Witness ==
    /\ result.returned
    /\ ~no_filter
    /\ ~config.ignore_all_hanzi
    /\ ~config.ignore_all_hiragana
    /\ result.words # << >>
    /\ \E k \in 1..Len(unique_words) :
           /\ Len(unique_words[k]) = 1
           /\ unique_words[k][1] \in HanChars
           /\ PassesLengthFloor(unique_words[k])
           /\ Rejection(unique_words[k], config, FiatSigns(cmc)) = "ascii"

=============================================================================
